---------------------------- MODULE Spec2Model ----------------------------
(***************************************************************************)
(* Model of the two disease-ranking engines of dxly:                       *)
(*   Engine A  src/backend/diagnose.py             (co-occurrence scorer)  *)
(*   Engine B  src/backend/json-based/diagnose.py  (profile scorer)        *)
(*                                                                         *)
(* Conventions.                                                            *)
(*  - A Python str is a sequence of one-character strings, so that         *)
(*    lower() and strip() are computed character by character.             *)
(*  - A Python float is an exact rational <<n, d>> (d > 0, lowest terms);  *)
(*    binary floating-point representation error is not modelled, and      *)
(*    round() rounds the exact value half-to-even.                         *)
(*  - Python positions are 0-based; sequence positions here are 1-based.   *)
(*  - A dict is a sequence of <<key, value>> entries in insertion order.   *)
(***************************************************************************)
EXTENDS Integers, Sequences, FiniteSets, TLC

VARIABLES
    a_pc,             \* Engine A: position of the running diagnose() call
    diseases,         \* Engine A: dataset['diseases'], one id per case row
    data_rows,        \* Engine A: dataset['data_rows'], one 0/1 vector per row
    symptoms,         \* Engine A: argument symptoms of the call
    top_n,            \* Engine A: argument top_n of the call
    symptom_indices,  \* Engine A: local symptom_indices
    disease_scores,   \* Engine A: local disease_scores (insertion-ordered)
    row_i,            \* Engine A: number of data rows the loop has visited
    results,          \* Engine A: the returned list
    m_pc,             \* match_expectation: "idle", "returned" or "raised"
    expected,         \* match_expectation: argument expected
    actual,           \* match_expectation: argument actual
    m_result,         \* match_expectation: the value returned or the exception raised
    b_pc,             \* Engine B: position of the running get_differential_diagnosis() call
    disease_profiles, \* Engine B: what load_disease_profiles() returns
    patient_symptoms, \* Engine B: argument patient_symptoms
    b_top_n,          \* Engine B: argument top_n
    min_confidence,   \* Engine B: argument min_confidence
    profile_i,        \* Engine B: number of disease profiles the loop has visited
    b_results,        \* Engine B: diagnose()'s local results
    all_diagnoses,    \* Engine B: the sorted list diagnose() returns
    returned,         \* Engine B: what get_differential_diagnosis() returns
    r_pc,             \* Engine A's API: "idle" or "responded"
    r_method,         \* Engine A's API: method of the /api/diagnose request
    r_request,        \* Engine A's API: the symptoms and top_n the request carries
    r_top_n,          \* Engine A's API: the top_n handed to diagnose(), if it was called
    r_status,         \* Engine A's API: status code of the response
    r_response,       \* Engine A's API: the results of the response
    calls             \* Parallel calls: the locals of each call

varsA == <<a_pc, diseases, data_rows, symptoms, top_n, symptom_indices,
           disease_scores, row_i, results>>

varsM == <<m_pc, expected, actual, m_result>>

varsB == <<b_pc, disease_profiles, patient_symptoms, b_top_n, min_confidence,
           profile_i, b_results, all_diagnoses, returned>>

varsR == <<r_pc, r_method, r_request, r_top_n, r_status, r_response>>

varsP == <<calls>>

vars == <<varsA, varsM, varsB, varsR, varsP>>

-----------------------------------------------------------------------------
(* Bounds of the model *)

MaxRows == 2
MaxSymptoms == 2
MaxTopN == 2
MaxProfiles == 2
MaxParallel == 2

-----------------------------------------------------------------------------
(* No request at the API of Engine A, no parallel call *)

IdleR ==
    /\ r_pc = "idle"
    /\ r_method = "none"
    /\ r_request = <<>>
    /\ r_top_n = <<"none">>
    /\ r_status = 0
    /\ r_response = <<>>

IdleP == calls = <<>>

-----------------------------------------------------------------------------
(* Sequences *)

RECURSIVE SeqSum(_)
SeqSum(s) == IF s = <<>> THEN 0 ELSE Head(s) + SeqSum(Tail(s))

\* Sequences over S of length at most n
SeqsUpTo(S, n) == UNION {[1..k -> S] : k \in 0..n}

\* list.index(x): the first position holding x; 0 when absent (ValueError)
IndexOf(s, x) ==
    IF \E k \in DOMAIN s : s[k] = x
    THEN CHOOSE k \in DOMAIN s : s[k] = x /\ \A j \in 1..(k - 1) : s[j] # x
    ELSE 0

\* s[:n]
Take(s, n) ==
    IF n >= 0 THEN SubSeq(s, 1, IF n < Len(s) THEN n ELSE Len(s))
    ELSE SubSeq(s, 1, IF Len(s) + n > 0 THEN Len(s) + n ELSE 0)

-----------------------------------------------------------------------------
(* Strings *)

UpperChars == <<"A", "B", "C", "D", "E", "F", "G", "H", "I", "J", "K", "L", "M",
                "N", "O", "P", "Q", "R", "S", "T", "U", "V", "W", "X", "Y", "Z">>
LowerChars == <<"a", "b", "c", "d", "e", "f", "g", "h", "i", "j", "k", "l", "m",
                "n", "o", "p", "q", "r", "s", "t", "u", "v", "w", "x", "y", "z">>
Whitespace == {" ", "\t", "\n"}

\* The lower-case letter of each upper-case letter
LowerOf == [c \in {UpperChars[k] : k \in DOMAIN UpperChars} |->
               LowerChars[CHOOSE k \in DOMAIN UpperChars : UpperChars[k] = c]]

LowerChar(c) == IF c \in DOMAIN LowerOf THEN LowerOf[c] ELSE c

\* str.lower()
StrLower(s) == [k \in DOMAIN s |-> LowerChar(s[k])]

RECURSIVE StrLStrip(_)
StrLStrip(s) == IF s # <<>> /\ Head(s) \in Whitespace THEN StrLStrip(Tail(s)) ELSE s

RECURSIVE StrRStrip(_)
StrRStrip(s) ==
    IF s # <<>> /\ s[Len(s)] \in Whitespace THEN StrRStrip(SubSeq(s, 1, Len(s) - 1)) ELSE s

\* str.strip()
StrStrip(s) == StrRStrip(StrLStrip(s))

-----------------------------------------------------------------------------
(* Rationals *)

RECURSIVE GCD(_, _)
GCD(a, b) == IF b = 0 THEN a ELSE GCD(b, a % b)

Abs(x) == IF x < 0 THEN -x ELSE x

\* n/d in lowest terms with a positive denominator (d # 0)
Rat(n, d) ==
    LET g == GCD(Abs(n), Abs(d))
        s == IF d < 0 THEN -1 ELSE 1
    IN <<(s * n) \div g, (s * d) \div g>>

RInt(n) == <<n, 1>>
RAdd(x, y) == Rat(x[1] * y[2] + y[1] * x[2], x[2] * y[2])
RSub(x, y) == Rat(x[1] * y[2] - y[1] * x[2], x[2] * y[2])
RMul(x, y) == Rat(x[1] * y[1], x[2] * y[2])
RDiv(x, y) == Rat(x[1] * y[2], x[2] * y[1])
RLt(x, y) == x[1] * y[2] < y[1] * x[2]
RLe(x, y) == x[1] * y[2] <= y[1] * x[2]
RMin(x, y) == IF RLt(y, x) THEN y ELSE x     \* min(x, y): first on a tie
RMax(x, y) == IF RLt(x, y) THEN y ELSE x     \* max(x, y): first on a tie
RAbs(x) == <<Abs(x[1]), x[2]>>

Pow10(k) == IF k = 0 THEN 1 ELSE IF k = 1 THEN 10 ELSE 100

\* round(x, k) for k in 0..2, half-to-even on the exact value
Round(x, k) ==
    LET n == x[1] * Pow10(k)
        q == n \div x[2]
        r == n - q * x[2]
        up == \/ 2 * r > x[2]
              \/ 2 * r = x[2] /\ q % 2 = 1
    IN Rat(IF up THEN q + 1 ELSE q, Pow10(k))

-----------------------------------------------------------------------------
(* list.sort(reverse=True) *)

\* Variant: an unstable sort, which puts a key in front of the keys equal to it
InsertPosBeforeTies(keys, order, x) == Cardinality({k \in DOMAIN order : RLt(x, keys[order[k]])})

\* Where a stable descending sort puts key x among the already sorted positions
\* order: behind every position whose key is not smaller
InsertPos(keys, order, x) == Cardinality({k \in DOMAIN order : RLe(x, keys[order[k]])})

RECURSIVE StableOrderDesc(_)
\* The order in which list.sort(reverse=True) leaves the positions of keys:
\* descending, equal keys in their original order
StableOrderDesc(keys) ==
    IF keys = <<>> THEN <<>>
    ELSE LET n == Len(keys)
             front == StableOrderDesc(SubSeq(keys, 1, n - 1))
             p == InsertPos(keys, front, keys[n])
         IN SubSeq(front, 1, p) \o <<n>> \o SubSeq(front, p + 1, Len(front))

-----------------------------------------------------------------------------
(* Python values of Engine B: a tag and a payload *)

PyNone == <<"none">>
PyBool(b) == <<"bool", b>>
PyNum(r) == <<"num", r>>          \* an int or a float; r is a rational
PyInt(n) == <<"num", <<n, 1>>>>
PyStr(s) == <<"str", s>>          \* s is a sequence of characters
PyList(items) == <<"list", items>>
PyDict(entries) == <<"dict", entries>>

TypeOf(v) == v[1]

\* isinstance(v, (int, float)); bool is a subclass of int
IsNumber(v) == TypeOf(v) \in {"num", "bool"}

\* The numeric value of an int, a float or a bool
NumVal(v) == IF TypeOf(v) = "bool" THEN (IF v[2] THEN RInt(1) ELSE RInt(0)) ELSE v[2]

\* x == y on scalars: numbers (and bools) by value, everything else by type and content
ScalarEq(x, y) ==
    IF IsNumber(x) /\ IsNumber(y) THEN NumVal(x) = NumVal(y)
    ELSE TypeOf(x) = TypeOf(y) /\ x = y

\* x == y; lists are compared element by element
PyEq(x, y) ==
    IF TypeOf(x) = "list" /\ TypeOf(y) = "list"
    THEN /\ Len(x[2]) = Len(y[2])
         /\ \A k \in DOMAIN x[2] : ScalarEq(x[2][k], y[2][k])
    ELSE ScalarEq(x, y)

\* x in items
PyIn(x, items) == \E k \in DOMAIN items : PyEq(items[k], x)

Digits == <<"0", "1", "2", "3", "4", "5", "6", "7", "8", "9">>

IsDigit(c) == \E k \in DOMAIN Digits : Digits[k] = c
DigitVal(c) == (CHOOSE k \in DOMAIN Digits : Digits[k] = c) - 1

RECURSIVE DigitsVal(_)
DigitsVal(s) == IF s = <<>> THEN 0 ELSE 10 * DigitsVal(SubSeq(s, 1, Len(s) - 1)) + DigitVal(s[Len(s)])

\* float(s) of a str accepts (after strip) an optional sign and decimal digits; every
\* other text drawn by this model is a ValueError
IsFloatText(s) ==
    LET b == StrStrip(s)
        d == IF b # <<>> /\ Head(b) \in {"-", "+"} THEN Tail(b) ELSE b
    IN d # <<>> /\ \A k \in DOMAIN d : IsDigit(d[k])

FloatOfText(s) ==
    LET b == StrStrip(s)
        neg == b # <<>> /\ Head(b) = "-"
        d == IF b # <<>> /\ Head(b) \in {"-", "+"} THEN Tail(b) ELSE b
    IN RInt(IF neg THEN -DigitsVal(d) ELSE DigitsVal(d))

\* float(v) succeeds: otherwise it raises ValueError (a str) or TypeError (a list, a dict)
FloatOk(v) == IsNumber(v) \/ (TypeOf(v) = "str" /\ IsFloatText(v[2]))

FloatOf(v) == IF IsNumber(v) THEN NumVal(v) ELSE FloatOfText(v[2])

-----------------------------------------------------------------------------
(* Engine B: src/backend/json-based/diagnose.py, match_expectation *)

Returned(score) == <<"returned", score>>
Raised(exception) == <<"raised", exception>>

\* "len(expected) == 2 and isinstance(expected[0], (int, float)) and ..."
IsRange(exp) ==
    /\ TypeOf(exp) = "list"
    /\ Len(exp[2]) = 2
    /\ IsNumber(exp[2][1])
    /\ IsNumber(exp[2][2])

\* "max(0.0, 1.0 - (distance / bound) * 0.5)"; the division raises on a zero bound
PartialCredit(distance, bound) ==
    IF bound = RInt(0)
    THEN Raised("ZeroDivisionError")
    ELSE Returned(RMax(RInt(0), RSub(RInt(1), RMul(RDiv(distance, bound), Rat(1, 2)))))

\* The range branch on a numeric actual
MatchRangeNum(min_val, max_val, actual_num) ==
    IF RLe(min_val, actual_num) /\ RLe(actual_num, max_val) THEN Returned(RInt(1))
    ELSE IF RLt(actual_num, min_val)
         THEN PartialCredit(RSub(min_val, actual_num), min_val)
         ELSE PartialCredit(RSub(actual_num, max_val), max_val)

\* The range branch: float(actual) failing with ValueError or TypeError scores 0.0
MatchRange(exp, act) ==
    IF ~FloatOk(act) THEN Returned(RInt(0))
    ELSE MatchRangeNum(NumVal(exp[2][1]), NumVal(exp[2][2]), FloatOf(act))

TruthyTokens == { <<"t", "r", "u", "e">>, <<"y", "e", "s">>, <<"1">> }

\* Variant: the tokens are compared without lower()
BoolOfTextCaseSensitive(s) == s \in TruthyTokens

\* "actual.lower() in ("true", "yes", "1")"
BoolOfText(s) == StrLower(s) \in TruthyTokens

\* The boolean branch
MatchBool(exp, act) ==
    IF TypeOf(act) = "bool" THEN Returned(IF act[2] = exp[2] THEN RInt(1) ELSE RInt(0))
    ELSE IF TypeOf(act) = "str"
         THEN Returned(IF BoolOfText(act[2]) = exp[2] THEN RInt(1) ELSE RInt(0))
         ELSE Returned(RInt(0))

\* The exact-equality default
MatchExact(exp, act) ==
    IF PyEq(exp, act) THEN Returned(RInt(1))
    ELSE IF TypeOf(exp) = "str" /\ TypeOf(act) = "str"
         THEN Returned(IF StrLower(exp[2]) = StrLower(act[2]) THEN RInt(1) ELSE RInt(0))
         ELSE Returned(RInt(0))

match_expectation(exp, act) ==
    IF act = PyNone THEN Returned(RInt(0))
    ELSE IF TypeOf(exp) = "list"
         THEN IF IsRange(exp) THEN MatchRange(exp, act)
              ELSE Returned(IF PyIn(act, exp[2]) THEN RInt(1) ELSE RInt(0))
         ELSE IF TypeOf(exp) = "bool" THEN MatchBool(exp, act)
              ELSE MatchExact(exp, act)

-----------------------------------------------------------------------------
(* match_expectation: the values the model draws from *)

sYes == <<"y", "e", "s">>
sYesUpper == <<"Y", "E", "S">>
sTrueMixed == <<"T", "r", "u", "e">>
sNo == <<"n", "o">>
sOne == <<"1">>
sSeven == <<"7">>
sTwelve == <<" ", "1", "2">>
sMild == <<"m", "i", "l", "d">>
sMildUpper == <<"M", "I", "L", "D">>
sSevere == <<"s", "e", "v", "e", "r", "e">>
sModerate == <<"m", "o", "d", "e", "r", "a", "t", "e">>

RangeOf(lo, hi) == PyList(<<PyNum(lo), PyNum(hi)>>)

Ranges == { RangeOf(RInt(5), RInt(10)),
            RangeOf(RInt(98), Rat(502, 5)),
            RangeOf(RInt(0), RInt(10)),
            RangeOf(RInt(-10), RInt(-5)),
            RangeOf(RInt(-10), RInt(0)) }

sampleDict == PyDict(<< <<"min", PyInt(5)>> >>)

ExpectedValues ==
    Ranges \cup
    { PyList(<<PyStr(sMild), PyStr(sSevere)>>), PyList(<<PyInt(7)>>),
      PyBool(TRUE), PyBool(FALSE),
      PyStr(sMild), PyInt(7), PyInt(1), sampleDict, PyNone }

ActualValues ==
    { PyNone, PyBool(TRUE), PyBool(FALSE),
      PyInt(-20), PyInt(-7), PyInt(-1), PyInt(0), PyInt(1), PyInt(3), PyInt(7), PyInt(12),
      PyInt(30), PyNum(Rat(99, 1)), PyNum(Rat(105, 1)),
      PyStr(sYes), PyStr(sYesUpper), PyStr(sTrueMixed), PyStr(sNo), PyStr(sOne),
      PyStr(sSeven), PyStr(sTwelve), PyStr(sMild), PyStr(sMildUpper), PyStr(sModerate),
      PyList(<<PyInt(5), PyInt(10)>>), sampleDict }

-----------------------------------------------------------------------------
(* match_expectation: one call *)

IdleM ==
    /\ m_pc = "idle"
    /\ expected = PyNone
    /\ actual = PyNone
    /\ m_result = PyNone

\* A caller invokes match_expectation(expected, actual)
CallMatchExpectation ==
    /\ m_pc = "idle"
    /\ \E e \in ExpectedValues, a \in ActualValues :
          /\ expected' = e
          /\ actual' = a
          /\ m_result' = match_expectation(e, a)
          /\ m_pc' = m_result'[1]
    /\ UNCHANGED <<varsA, varsB, varsR, varsP>>

-----------------------------------------------------------------------------
(* Engine B: dicts *)

\* dict.get(key, default) on a dict held as a sequence of <<key, value>> entries
Get(d, key, default) ==
    IF \E k \in DOMAIN d : d[k][1] = key
    THEN d[CHOOSE k \in DOMAIN d : d[k][1] = key][2]
    ELSE default

\* key in dict
HasKey(d, key) == \E k \in DOMAIN d : d[k][1] = key

-----------------------------------------------------------------------------
(* Engine B: src/backend/json-based/diagnose.py, scoring *)

\* "weighted_score += match_score * weight", unless a match raised
AddMatchScore(before, match_score) ==
    IF before[1] = "raised" THEN before
    ELSE IF match_score[1] = "raised" THEN match_score
         ELSE Returned(RAdd(before[2], match_score[2]))

RECURSIVE MatchExpectations(_, _, _)
\* The loop of calculate_symptom_match_score over expectations[1..n]: the sum of the
\* match scores, or the exception a match raised
MatchExpectations(expectations, patient_data, n) ==
    IF n = 0 THEN Returned(RInt(0))
    ELSE AddMatchScore(MatchExpectations(expectations, patient_data, n - 1),
                       match_expectation(expectations[n][2],
                                         Get(patient_data, expectations[n][1], PyNone)))

\* "return weighted_score / total_weight"
WeightedMean(weighted, total_weight) ==
    IF weighted[1] = "raised" THEN weighted
    ELSE Returned(RDiv(weighted[2], RInt(total_weight)))

calculate_symptom_match_score(disease_symptom, patient_symptom_data) ==
    IF Get(disease_symptom, "expectations", <<>>) = <<>> THEN Returned(RInt(1))
    ELSE WeightedMean(MatchExpectations(Get(disease_symptom, "expectations", <<>>),
                                        patient_symptom_data,
                                        Len(Get(disease_symptom, "expectations", <<>>))),
                      Len(Get(disease_symptom, "expectations", <<>>)))

DefaultImportance == Rat(1, 2)
DefaultPrevalence == Rat(1, 20)
MissingThreshold == Rat(7, 10)
MatchedThreshold == Rat(4, 5)
PrevalenceBoost == Rat(1, 5)

\* round(x * 100)
RoundPercent(x) == Round(RMul(x, RInt(100)), 0)[1]

\* Variant: the absence test of a negative-importance symptom is inverted
AbsenceSupportsInverted(symptom_name, patient) == HasKey(patient, symptom_name)

\* "symptom_name not in patient_symptom_names" of the negative-importance branch
AbsenceSupports(symptom_name, patient) == ~HasKey(patient, symptom_name)

\* The accumulators of one disease before its symptom loop
NewTally ==
    [total_score |-> RInt(0), max_possible_score |-> RInt(0), matched_symptoms |-> <<>>,
     missing_symptoms |-> <<>>, partially_matched |-> <<>>, negative_matches |-> <<>>,
     raised |-> PyNone]

\* The negative-importance branch: the symptom's absence supports the diagnosis
ScoreNegative(tally, symptom_name, symptom_config, patient, abs_importance) ==
    IF AbsenceSupports(symptom_name, patient)
    THEN [tally EXCEPT
            !.max_possible_score = RAdd(@, abs_importance),
            !.total_score = RAdd(@, abs_importance),
            !.negative_matches =
                Append(@, [symptom |-> symptom_name,
                           note |-> Get(symptom_config, "note",
                                        <<"Absence of", symptom_name,
                                          "supports this diagnosis">>)])]
    ELSE [tally EXCEPT !.max_possible_score = RAdd(@, abs_importance)]

\* The entry of matched_symptoms and of partially_matched
MatchEntry(symptom_name, match_quality, importance) ==
    [symptom |-> symptom_name,
     match_quality |-> RoundPercent(match_quality),
     importance |-> RoundPercent(importance)]

\* A reported symptom whose match quality is known
ScoreQuality(tally, symptom_name, importance, match_quality) ==
    IF RLe(MatchedThreshold, match_quality)
    THEN [tally EXCEPT
            !.max_possible_score = RAdd(@, importance),
            !.total_score = RAdd(@, RMul(importance, match_quality)),
            !.matched_symptoms = Append(@, MatchEntry(symptom_name, match_quality, importance))]
    ELSE IF RLt(RInt(0), match_quality)
         THEN [tally EXCEPT
                 !.max_possible_score = RAdd(@, importance),
                 !.total_score = RAdd(@, RMul(importance, match_quality)),
                 !.partially_matched =
                     Append(@, MatchEntry(symptom_name, match_quality, importance))]
         ELSE [tally EXCEPT
                 !.max_possible_score = RAdd(@, importance),
                 !.total_score = RAdd(@, RMul(importance, match_quality))]

\* A reported symptom: quality is what calculate_symptom_match_score returned or raised
ScoreReported(tally, symptom_name, importance, quality) ==
    IF quality[1] = "raised" THEN [tally EXCEPT !.raised = quality]
    ELSE ScoreQuality(tally, symptom_name, importance, quality[2])

\* A symptom the patient did not report
ScoreUnreported(tally, symptom_name, importance) ==
    IF RLe(MissingThreshold, importance)
    THEN [tally EXCEPT
            !.max_possible_score = RAdd(@, importance),
            !.missing_symptoms = Append(@, [symptom |-> symptom_name,
                                            importance |-> RoundPercent(importance)])]
    ELSE [tally EXCEPT !.max_possible_score = RAdd(@, importance)]

\* Variant: an entry without an importance weighs nothing
ImportanceOfDefaultZero(symptom_config) ==
    NumVal(Get(symptom_config, "importance", PyNum(RInt(0))))

\* "importance = symptom_config.get("importance", 0.5)"
ImportanceOf(symptom_config) ==
    NumVal(Get(symptom_config, "importance", PyNum(DefaultImportance)))

\* One iteration of "for symptom_name, symptom_config in disease_symptoms.items()"
ScoreSymptom(tally, symptom_name, symptom_config, patient) ==
    IF RLt(ImportanceOf(symptom_config), RInt(0))
    THEN ScoreNegative(tally, symptom_name, symptom_config, patient,
                       RAbs(ImportanceOf(symptom_config)))
    ELSE IF HasKey(patient, symptom_name)
         THEN ScoreReported(tally, symptom_name, ImportanceOf(symptom_config),
                            calculate_symptom_match_score(symptom_config,
                                                          Get(patient, symptom_name, <<>>)))
         ELSE ScoreUnreported(tally, symptom_name, ImportanceOf(symptom_config))

\* The next iteration of the symptom loop, unless an exception ended it
ScoreSymptomUnlessRaised(before, symptom_name, symptom_config, patient) ==
    IF before.raised # PyNone THEN before
    ELSE ScoreSymptom(before, symptom_name, symptom_config, patient)

RECURSIVE ScoreSymptoms(_, _, _)
\* The symptom loop over disease_symptoms[1..n]
ScoreSymptoms(disease_symptoms, patient, n) ==
    IF n = 0 THEN NewTally
    ELSE ScoreSymptomUnlessRaised(ScoreSymptoms(disease_symptoms, patient, n - 1),
                                  disease_symptoms[n][1], disease_symptoms[n][2], patient)

\* base_confidence, prevalence_factor and confidence
\* Variant: the prevalence boost is applied without the cap at 100
ConfidenceUncapped(total_score, max_possible_score, prevalence) ==
    LET base_confidence == IF RLt(RInt(0), max_possible_score)
                           THEN RMul(RDiv(total_score, max_possible_score), RInt(100))
                           ELSE RInt(0)
    IN RMul(base_confidence, RAdd(RInt(1), RMul(prevalence, PrevalenceBoost)))

Confidence(total_score, max_possible_score, prevalence) ==
    LET base_confidence == IF RLt(RInt(0), max_possible_score)
                           THEN RMul(RDiv(total_score, max_possible_score), RInt(100))
                           ELSE RInt(0)
        prevalence_factor == RAdd(RInt(1), RMul(prevalence, PrevalenceBoost))
    IN RMin(RInt(100), RMul(base_confidence, prevalence_factor))

\* The names of a list of entries
SymptomsOf(entries) == [k \in DOMAIN entries |-> entries[k].symptom]

\* explanation_parts, before " | ".join
ExplanationParts(tally) ==
    (IF tally.matched_symptoms # <<>>
        THEN << <<"Strong match on: ", SymptomsOf(tally.matched_symptoms)>> >> ELSE <<>>)
    \o (IF tally.partially_matched # <<>>
        THEN << <<"Partial match on: ", SymptomsOf(tally.partially_matched)>> >> ELSE <<>>)
    \o [k \in DOMAIN tally.negative_matches |-> tally.negative_matches[k].note]
    \o (IF tally.missing_symptoms # <<>>
        THEN << <<"Consider checking for: ", SymptomsOf(tally.missing_symptoms)>> >> ELSE <<>>)

\* Variant: a disease is left out when its confidence is 0, whatever it matched
ProfileOutcomeByConfidence(disease_name, disease_data, tally) ==
    IF tally.raised # PyNone THEN tally.raised
    ELSE IF Confidence(tally.total_score, tally.max_possible_score,
                       NumVal(Get(disease_data, "prevalence", PyNum(DefaultPrevalence))))
                = RInt(0)
         THEN <<"skip">>
         ELSE <<"append",
                [disease |-> disease_name,
                 common_name |-> Get(disease_data, "common_name", disease_name),
                 category |-> Get(disease_data, "category", "General"),
                 confidence |->
                     Round(Confidence(tally.total_score, tally.max_possible_score,
                                      NumVal(Get(disease_data, "prevalence",
                                                 PyNum(DefaultPrevalence)))), 1),
                 matched_symptoms |-> tally.matched_symptoms,
                 partially_matched |-> tally.partially_matched,
                 missing_symptoms |-> tally.missing_symptoms,
                 negative_matches |-> tally.negative_matches,
                 explanation |-> ExplanationParts(tally)]>>

\* The end of one iteration of the profile loop, given the tally of its symptom loop:
\* <<"skip">> (continue), <<"append", record>> or <<"raised", exception>>
ProfileOutcome(disease_name, disease_data, tally) ==
    IF tally.raised # PyNone THEN tally.raised
    ELSE IF /\ tally.matched_symptoms = <<>>
            /\ tally.partially_matched = <<>>
            /\ tally.negative_matches = <<>>
         THEN <<"skip">>
         ELSE <<"append",
                [disease |-> disease_name,
                 common_name |-> Get(disease_data, "common_name", disease_name),
                 category |-> Get(disease_data, "category", "General"),
                 confidence |->
                     Round(Confidence(tally.total_score, tally.max_possible_score,
                                      NumVal(Get(disease_data, "prevalence",
                                                 PyNum(DefaultPrevalence)))), 1),
                 matched_symptoms |-> tally.matched_symptoms,
                 partially_matched |-> tally.partially_matched,
                 missing_symptoms |-> tally.missing_symptoms,
                 negative_matches |-> tally.negative_matches,
                 explanation |-> ExplanationParts(tally)]>>

\* One iteration of "for disease_name, disease_data in disease_profiles.items()"
ScoreProfile(disease_name, disease_data, patient) ==
    IF Get(disease_data, "symptoms", <<>>) = <<>> THEN <<"skip">>
    ELSE ProfileOutcome(disease_name, disease_data,
                        ScoreSymptoms(Get(disease_data, "symptoms", <<>>), patient,
                                      Len(Get(disease_data, "symptoms", <<>>))))

\* results after an iteration of the profile loop
ResultsAfter(rs, outcome) == IF outcome[1] = "append" THEN Append(rs, outcome[2]) ELSE rs

\* An uncaught exception ends the call
PcAfter(outcome) == IF outcome[1] = "raised" THEN "raised" ELSE "profiles"

\* Variant: an ascending sort followed by reverse(), which turns ties around
SortDiagnosesThenReverse(rs) ==
    LET n == Len(rs)
        order == StableOrderDesc([k \in DOMAIN rs |-> rs[n + 1 - k].confidence])
    IN [k \in DOMAIN rs |-> rs[n + 1 - order[k]]]

\* "results.sort(key=lambda x: x["confidence"], reverse=True)"
SortDiagnoses(rs) ==
    LET order == StableOrderDesc([k \in DOMAIN rs |-> rs[k].confidence])
    IN [k \in DOMAIN rs |-> rs[order[k]]]

\* Variant: the threshold is exclusive
PassesThresholdStrict(confidence, threshold) == RLt(threshold, confidence)

\* "d["confidence"] >= min_confidence"
PassesThreshold(confidence, threshold) == RLe(threshold, confidence)

RECURSIVE FilterByConfidence(_, _)
\* "[d for d in all_diagnoses if d["confidence"] >= min_confidence]"
FilterByConfidence(ds, threshold) ==
    IF ds = <<>> THEN <<>>
    ELSE (IF PassesThreshold(Head(ds).confidence, threshold) THEN <<Head(ds)>> ELSE <<>>)
             \o FilterByConfidence(Tail(ds), threshold)

-----------------------------------------------------------------------------
(* Engine B: reference data and inputs the model draws from *)

\* Symptom entries of a disease profile
CoughConfigs ==
    { << <<"importance", PyNum(Rat(-3, 5))>> >>,
      << <<"importance", PyNum(RInt(0))>>, <<"expectations", <<>> >> >> }

FeverConfigs ==
    { << <<"importance", PyNum(Rat(9, 10))>>,
         <<"expectations", << <<"intensity", RangeOf(RInt(5), RInt(10))>> >> >> >>,
      << <<"expectations", <<>> >> >> }

\* The "symptoms" dicts of a profile: Cough and Fever, each there or not
SymptomMaps ==
    { c \o f : c \in {<<>>} \cup { << <<"Cough", x>> >> : x \in CoughConfigs },
               f \in {<<>>} \cup { << <<"Fever", x>> >> : x \in FeverConfigs } }

Prevalences == { <<>>, << <<"prevalence", PyNum(Rat(3, 10))>> >> }

\* The symptom maps that come with a "prevalence" of their own: those in which the
\* absence of Cough supports the diagnosis and every entry states its importance
PrevalentSymptomMaps ==
    { s \in SymptomMaps :
        /\ HasKey(s, "Cough") /\ RLt(ImportanceOf(Get(s, "Cough", <<>>)), RInt(0))
        /\ \A e \in DOMAIN s : HasKey(s[e][2], "importance") }

DiseaseDatas ==
    { p \o << <<"symptoms", s>> >> :
        p \in Prevalences, s \in SymptomMaps } \ { p \o << <<"symptoms", s>> >> :
        p \in Prevalences \ {<<>>}, s \in SymptomMaps \ PrevalentSymptomMaps }

\* Profile collections: the k-th key of the file is <<"disease", k>>
ProfileCollections ==
    UNION { { [k \in 1..n |-> << <<"disease", k>>, f[k] >>] : f \in [1..n -> DiseaseDatas] } :
            n \in 0..MaxProfiles }

PatientReports ==
    { c \o f : c \in { <<>>,
                       << <<"Cough", << <<"present", PyBool(TRUE)>> >> >> >>,
                       << <<"Cough", << <<"present", PyBool(FALSE)>> >> >> >> },
               f \in { <<>>,
                       << <<"Fever", << <<"present", PyBool(TRUE)>>, <<"intensity", PyInt(7)>> >> >> >>,
                       << <<"Fever", << <<"intensity", PyInt(20)>> >> >> >>,
                       << <<"Fever", << <<"present", PyBool(FALSE)>> >> >> >> } }

MinConfidences == { RInt(10), RInt(100) }

-----------------------------------------------------------------------------
(* Engine B: one get_differential_diagnosis() call, step by step *)

IdleB ==
    /\ b_pc = "idle"
    /\ disease_profiles = <<>>
    /\ patient_symptoms = <<>>
    /\ b_top_n = 0
    /\ min_confidence = RInt(0)
    /\ profile_i = 0
    /\ b_results = <<>>
    /\ all_diagnoses = <<>>
    /\ returned = <<>>

\* A caller invokes get_differential_diagnosis(patient_symptoms, top_n, min_confidence),
\* which calls diagnose(patient_symptoms)
CallDifferential ==
    /\ b_pc = "idle"
    /\ \E p \in PatientReports, n \in 1..MaxTopN, c \in MinConfidences :
          /\ patient_symptoms' = p
          /\ b_top_n' = n
          /\ min_confidence' = c
    /\ b_pc' = "profiles"
    /\ UNCHANGED <<disease_profiles, profile_i, b_results, all_diagnoses, returned>>
    /\ UNCHANGED <<varsA, varsM, varsR, varsP>>

\* One iteration of diagnose()'s loop over the disease profiles
ScoreNextProfile ==
    /\ b_pc = "profiles"
    /\ profile_i < Len(disease_profiles)
    /\ profile_i' = profile_i + 1
    /\ b_results' = ResultsAfter(b_results,
                                 ScoreProfile(disease_profiles[profile_i'][1],
                                              disease_profiles[profile_i'][2],
                                              patient_symptoms))
    /\ b_pc' = PcAfter(ScoreProfile(disease_profiles[profile_i'][1],
                                    disease_profiles[profile_i'][2], patient_symptoms))
    /\ UNCHANGED <<disease_profiles, patient_symptoms, b_top_n, min_confidence,
                   all_diagnoses, returned>>
    /\ UNCHANGED <<varsA, varsM, varsR, varsP>>

\* After the loop diagnose() sorts its results and returns them
ReturnDiagnoses ==
    /\ b_pc = "profiles"
    /\ profile_i = Len(disease_profiles)
    /\ all_diagnoses' = SortDiagnoses(b_results)
    /\ b_pc' = "filter"
    /\ UNCHANGED <<disease_profiles, patient_symptoms, b_top_n, min_confidence,
                   profile_i, b_results, returned>>
    /\ UNCHANGED <<varsA, varsM, varsR, varsP>>

\* get_differential_diagnosis filters by min_confidence and returns the first top_n
FilterTopN ==
    /\ b_pc = "filter"
    /\ returned' = Take(FilterByConfidence(all_diagnoses, min_confidence), b_top_n)
    /\ b_pc' = "done"
    /\ UNCHANGED <<disease_profiles, patient_symptoms, b_top_n, min_confidence,
                   profile_i, b_results, all_diagnoses>>
    /\ UNCHANGED <<varsA, varsM, varsR, varsP>>

-----------------------------------------------------------------------------
(* Engine A: reference data and inputs the model draws from *)

\* header[1:] of the CSV file
symptom_columns == << <<"F", "e", "v", "e", "r">>,
                      <<" ", "c", "o", "u", "g", "h">>,
                      <<"r", "a", "s", "h">> >>

\* Symptom names a caller may pass; the last one is in no column
SymptomNames == { <<"f", "e", "v", "e", "r", " ">>,
                  <<"C", "o", "u", "g", "h">>,
                  <<"z", "z", "z">> }

DiseaseIds == {"Flu", "Cold"}

\* Case rows: every 0/1 vector over the columns, and one row shorter than the header
RowVectors == [1..Len(symptom_columns) -> {0, 1}] \cup { <<0, 1>> }

-----------------------------------------------------------------------------
(* Engine A: src/backend/diagnose.py *)

normalize_symptom_name(symptom) == StrStrip(StrLower(symptom))

RECURSIVE find_symptom_indices_keep_unknown(_, _)
\* Variant: a name found in no column is kept, as the last column
find_symptom_indices_keep_unknown(syms, columns) ==
    IF syms = <<>> THEN <<>>
    ELSE LET normalized_columns == [k \in DOMAIN columns |-> normalize_symptom_name(columns[k])]
             idx == IndexOf(normalized_columns, normalize_symptom_name(Head(syms)))
         IN <<IF idx # 0 THEN idx ELSE Len(columns)>>
               \o find_symptom_indices_keep_unknown(Tail(syms), columns)

RECURSIVE find_symptom_indices(_, _)
find_symptom_indices(syms, columns) ==
    IF syms = <<>> THEN <<>>
    ELSE LET normalized_columns == [k \in DOMAIN columns |-> normalize_symptom_name(columns[k])]
             idx == IndexOf(normalized_columns, normalize_symptom_name(Head(syms)))
         IN (IF idx # 0 THEN <<idx>> ELSE <<>>) \o find_symptom_indices(Tail(syms), columns)

\* disease_frequencies[disease]
DiseaseFrequency(ds, disease) == Cardinality({k \in DOMAIN ds : ds[k] = disease})

\* matched_symptoms of one row: one count per entry of symptom_indices
MatchedSymptoms(indices, row) ==
    Cardinality({k \in DOMAIN indices : indices[k] <= Len(row) /\ row[indices[k]] = 1})

TotalSymptomsInRow(row) == SeqSum(row)

\* Variant: a row without a matched symptom is scored like any other
SkipRowNever(matched) == FALSE

\* "if matched_symptoms == 0: continue"
SkipRow(matched) == matched = 0

\* Variant: the match count is compared with the number of columns
IsExactMatchAllColumns(matched, indices) == matched = Len(symptom_columns)

IsExactMatch(matched, indices) == matched = Len(indices)

IsSingleSymptomMatch(total_in_row, matched) == total_in_row = 1 /\ matched = 1

ExactMatchBonus == Rat(2, 1)
HighCorrelationBonus == Rat(3, 2)

\* base_score of one matching row
BaseScore(matched, total_in_row, indices) ==
    LET match_percentage == Rat(matched, Len(indices))
        b0 == RMul(match_percentage, RInt(100))
        b1 == IF IsExactMatch(matched, indices) THEN RMul(b0, ExactMatchBonus) ELSE b0
    IN IF IsSingleSymptomMatch(total_in_row, matched) THEN RMul(b1, HighCorrelationBonus) ELSE b1

FrequencyWeight(freq) == RAdd(RInt(1), Rat(freq, 10000))

\* The defaultdict's factory
NewStats(disease) ==
    [disease |-> disease, total_score |-> RInt(0), match_count |-> 0, case_count |-> 0,
     exact_matches |-> 0, single_symptom_matches |-> 0]

\* Position of disease in the insertion-ordered disease_scores; 0 when it has no entry
StatsPos(scores, disease) ==
    IF \E k \in DOMAIN scores : scores[k].disease = disease
    THEN CHOOSE k \in DOMAIN scores : scores[k].disease = disease
    ELSE 0

\* One iteration of "for i, row_symptoms in enumerate(data_rows)"
ScoreRow(scores, disease, row, indices, freq) ==
    LET matched == MatchedSymptoms(indices, row)
        total_in_row == TotalSymptomsInRow(row)
        withEntry == IF StatsPos(scores, disease) = 0
                     THEN Append(scores, NewStats(disease)) ELSE scores
        p == StatsPos(withEntry, disease)
        old == withEntry[p]
        new == [old EXCEPT
                  !.case_count = @ + 1,
                  !.exact_matches = IF IsExactMatch(matched, indices) THEN @ + 1 ELSE @,
                  !.single_symptom_matches =
                      IF IsSingleSymptomMatch(total_in_row, matched) THEN @ + 1 ELSE @,
                  !.total_score = RAdd(@, RMul(BaseScore(matched, total_in_row, indices),
                                               FrequencyWeight(freq))),
                  !.match_count = @ + matched]
    IN IF SkipRow(matched) THEN scores ELSE [withEntry EXCEPT ![p] = new]

\* The result record of one disease_scores entry
FinalRecord(stats, indices, freq) ==
    LET avg_score == IF stats.case_count > 0
                     THEN RDiv(stats.total_score, RInt(stats.case_count)) ELSE RInt(0)
        confidence_weight == RMin(Rat(stats.case_count, 10), RInt(2))
        final_score == RMul(avg_score, confidence_weight)
        match_percentage == IF stats.case_count > 0
                            THEN RMul(Rat(stats.match_count, stats.case_count * Len(indices)),
                                      RInt(100))
                            ELSE RInt(0)
    IN [disease |-> stats.disease,
        score |-> Round(final_score, 2),
        match_count |-> stats.match_count,
        total_symptom_count |-> Len(indices),
        frequency |-> freq,
        match_percentage |-> Round(match_percentage, 2),
        case_count |-> stats.case_count,
        exact_matches |-> stats.exact_matches]

BuildResults(scores, indices, ds) ==
    [k \in DOMAIN scores |-> FinalRecord(scores[k], indices, DiseaseFrequency(ds, scores[k].disease))]

\* "results.sort(key=lambda x: x['score'], reverse=True)"
SortResults(rs) ==
    LET order == StableOrderDesc([k \in DOMAIN rs |-> rs[k].score])
    IN [k \in DOMAIN rs |-> rs[order[k]]]

RECURSIVE ScoreRows(_, _, _, _)
\* The row loop over rows 1..n
ScoreRows(ds, rows, indices, n) ==
    IF n = 0 THEN <<>>
    ELSE ScoreRow(ScoreRows(ds, rows, indices, n - 1), ds[n], rows[n], indices,
                  DiseaseFrequency(ds, ds[n]))

\* diagnose(symptoms, top_n) over the dataset (ds, rows), as a function
diagnose(syms, n, ds, rows) ==
    LET indices == find_symptom_indices(syms, symptom_columns)
    IN IF indices = <<>> THEN <<>>
       ELSE Take(SortResults(BuildResults(ScoreRows(ds, rows, indices, Len(rows)), indices, ds)), n)

-----------------------------------------------------------------------------
(* Engine A: one diagnose() call, step by step *)

IdleA ==
    /\ a_pc = "idle"
    /\ diseases = <<>>
    /\ data_rows = <<>>
    /\ symptoms = <<>>
    /\ top_n = 0
    /\ symptom_indices = <<>>
    /\ disease_scores = <<>>
    /\ row_i = 0
    /\ results = <<>>

InitA ==
    /\ a_pc = "idle"
    /\ \E n \in 0..MaxRows :
          /\ diseases \in [1..n -> DiseaseIds]
          /\ data_rows \in [1..n -> RowVectors]
    /\ symptoms = <<>>
    /\ top_n = 0
    /\ symptom_indices = <<>>
    /\ disease_scores = <<>>
    /\ row_i = 0
    /\ results = <<>>
    /\ IdleM
    /\ IdleB
    /\ IdleR
    /\ IdleP

\* A caller invokes diagnose(symptoms, top_n)
CallDiagnose ==
    /\ a_pc = "idle"
    /\ \E syms \in SeqsUpTo(SymptomNames, MaxSymptoms), n \in 1..MaxTopN :
          /\ symptoms' = syms
          /\ top_n' = n
    /\ a_pc' = "resolve"
    /\ UNCHANGED <<diseases, data_rows, symptom_indices, disease_scores, row_i, results>>
    /\ UNCHANGED <<varsM, varsB, varsR, varsP>>

\* find_symptom_indices and the early return on an empty index list
ResolveSymptoms ==
    /\ a_pc = "resolve"
    /\ symptom_indices' = find_symptom_indices(symptoms, symptom_columns)
    /\ a_pc' = IF symptom_indices' = <<>> THEN "done" ELSE "rows"
    /\ UNCHANGED <<diseases, data_rows, symptoms, top_n, disease_scores, row_i, results>>
    /\ UNCHANGED <<varsM, varsB, varsR, varsP>>

\* One iteration of the row loop
ScoreNextRow ==
    /\ a_pc = "rows"
    /\ row_i < Len(data_rows)
    /\ row_i' = row_i + 1
    /\ disease_scores' = ScoreRow(disease_scores, diseases[row_i'], data_rows[row_i'],
                                  symptom_indices, DiseaseFrequency(diseases, diseases[row_i']))
    /\ UNCHANGED <<a_pc, diseases, data_rows, symptoms, top_n, symptom_indices, results>>
    /\ UNCHANGED <<varsM, varsB, varsR, varsP>>

\* After the loop: build the records, sort them, return the first top_n
FinishDiagnose ==
    /\ a_pc = "rows"
    /\ row_i = Len(data_rows)
    /\ results' = Take(SortResults(BuildResults(disease_scores, symptom_indices, diseases)), top_n)
    /\ a_pc' = "done"
    /\ UNCHANGED <<diseases, data_rows, symptoms, top_n, symptom_indices, disease_scores, row_i>>
    /\ UNCHANGED <<varsM, varsB, varsR, varsP>>

NextA == CallDiagnose \/ ResolveSymptoms \/ ScoreNextRow \/ FinishDiagnose

SpecA == InitA /\ [][NextA]_vars

-----------------------------------------------------------------------------
(* Engine A: what the claims speak about, stated on the call's inputs *)

\* The columns the call's symptom names resolve to: a name resolves to the first
\* column of its normalized name
QueriedColumns ==
    LET norm == [c \in DOMAIN symptom_columns |-> normalize_symptom_name(symptom_columns[c])]
    IN {c \in DOMAIN symptom_columns :
           /\ \A j \in 1..(c - 1) : norm[j] # norm[c]
           /\ \E k \in DOMAIN symptoms : normalize_symptom_name(symptoms[k]) = norm[c]}

\* Case row r has one of the columns Q present
RowMatches(Q, r) ==
    \E c \in Q : c <= Len(data_rows[r]) /\ data_rows[r][c] = 1

MatchingRowsOf(Q, disease) ==
    {r \in DOMAIN data_rows : diseases[r] = disease /\ RowMatches(Q, r)}

\* The first matching case row of a disease that has one
FirstMatchingRow(Q, disease) ==
    CHOOSE r \in MatchingRowsOf(Q, disease) : \A q \in MatchingRowsOf(Q, disease) : r <= q

\* C1: the list diagnose returns is ordered by non-increasing score, and diseases of
\* equal rounded score appear in the order of their first matching case rows.
C1_SortedTiesInEncounterOrder ==
    (a_pc = "done" /\ symptom_indices # <<>>) =>
        \A i, j \in DOMAIN results :
            i < j =>
                /\ RLe(results[j].score, results[i].score)
                /\ results[i].score = results[j].score =>
                       FirstMatchingRow(QueriedColumns, results[i].disease)
                           < FirstMatchingRow(QueriedColumns, results[j].disease)

\* C1 witness: a finished call that returned two diseases of equal score
C1_Witness ==
    /\ a_pc = "done"
    /\ Len(results) = 2
    /\ results[1].score = results[2].score

\* C2: every returned record has match_count >= case_count >= 1.
C2_MatchCountAtLeastCaseCount ==
    a_pc = "done" =>
        \A k \in DOMAIN results :
            /\ results[k].match_count >= results[k].case_count
            /\ results[k].case_count >= 1

\* C2 witness: a returned disease that also has a case row without any queried symptom
C2_Witness ==
    /\ a_pc = "done"
    /\ \E k \in DOMAIN results, r \in DOMAIN data_rows :
          /\ diseases[r] = results[k].disease
          /\ ~RowMatches(QueriedColumns, r)
          /\ TotalSymptomsInRow(data_rows[r]) > 0

\* C3: diagnose returns [] whenever no case row has a queried symptom present; when no
\* name resolves to a column it returns [] before visiting any row.
C3_EmptyWhenNothingMatches ==
    /\ (a_pc = "done" /\ \A r \in DOMAIN data_rows : ~RowMatches(QueriedColumns, r)) =>
           results = <<>>
    /\ (a_pc = "done" /\ QueriedColumns = {}) =>
           /\ row_i = 0
           /\ disease_scores = <<>>
           /\ results = <<>>

\* C3 witness: a finished call whose names resolved, over rows that hold symptoms, none
\* of them a queried one
C3_Witness ==
    /\ a_pc = "done"
    /\ QueriedColumns # {}
    /\ data_rows # <<>>
    /\ \A r \in DOMAIN data_rows :
          ~RowMatches(QueriedColumns, r) /\ TotalSymptomsInRow(data_rows[r]) > 0
    /\ results = <<>>

\* The single case row has every queried symptom present
SingleRowHasAllQueried ==
    /\ Len(data_rows) = 1
    /\ Cardinality(QueriedColumns) >= 2
    /\ Cardinality(QueriedColumns) = Len(symptom_indices)
    /\ \A c \in QueriedColumns : c <= Len(data_rows[1]) /\ data_rows[1][c] = 1

\* The rows equal to the single case row outside the queried columns that have a
\* proper non-empty subset of the queried symptoms present
ProperSubsetRows ==
    {row \in [1..Len(symptom_columns) -> {0, 1}] :
        /\ \A c \in DOMAIN row : c \notin QueriedColumns => row[c] = data_rows[1][c]
        /\ \E c \in QueriedColumns : row[c] = 1
        /\ \E c \in QueriedColumns : row[c] = 0}

\* C4: over a single case row that has all k >= 2 distinct queried symptoms, the record
\* has exact_matches = 1 and a score strictly above the one the same call returns
\* when the row has only a proper non-empty subset of them (exact_matches = 0).
C4_ExactMatchScoresHigher ==
    (a_pc = "done" /\ SingleRowHasAllQueried) =>
        /\ Len(results) = 1
        /\ results[1].exact_matches = 1
        /\ \A row \in ProperSubsetRows :
              LET other == diagnose(symptoms, top_n, diseases, <<row>>)
              IN /\ Len(other) = 1
                 /\ other[1].exact_matches = 0
                 /\ RLt(other[1].score, results[1].score)

\* C4 witness: such a call has returned, and the row has a subset row with the
\* high-correlation bonus to compare with
C4_Witness ==
    /\ a_pc = "done"
    /\ SingleRowHasAllQueried
    /\ \E row \in ProperSubsetRows : TotalSymptomsInRow(row) = 1

-----------------------------------------------------------------------------
(* match_expectation alone *)

InitM == IdleM /\ IdleA /\ IdleB /\ IdleR /\ IdleP

NextM == CallMatchExpectation

SpecM == InitM /\ [][NextM]_vars

-----------------------------------------------------------------------------
(* Engine B alone *)

InitB ==
    /\ IdleA
    /\ IdleM
    /\ IdleR
    /\ IdleP
    /\ b_pc = "idle"
    /\ disease_profiles \in ProfileCollections
    /\ patient_symptoms = <<>>
    /\ b_top_n = 0
    /\ min_confidence = RInt(0)
    /\ profile_i = 0
    /\ b_results = <<>>
    /\ all_diagnoses = <<>>
    /\ returned = <<>>

NextB == CallDifferential \/ ScoreNextProfile \/ ReturnDiagnoses \/ FilterTopN

SpecB == InitB /\ [][NextB]_vars

-----------------------------------------------------------------------------
(* match_expectation: the claims *)

\* C5: match_expectation returns a score in [0.0, 1.0] for every expected value and
\* every actual value, ranges with negative or zero bounds included.
C5_ScoreInUnitInterval ==
    m_pc = "returned" => RLe(RInt(0), m_result[2]) /\ RLe(m_result[2], RInt(1))

\* The shapes the code has no branch for: neither a list, a boolean nor a scalar
UnrecognizedShape(exp) == TypeOf(exp) \notin {"list", "bool", "str", "num"}

\* C6: match_expectation never raises, whatever the expected and the actual value
\* (a range with a zero bound included); an unrecognized expected shape scores 0
\* unless the two values are literally equal.
C6_NeverRaises ==
    m_pc # "idle" =>
        /\ m_pc = "returned"
        /\ UnrecognizedShape(expected) /\ actual # PyNone =>
               m_result = Returned(IF expected = actual THEN RInt(1) ELSE RInt(0))

\* The credit the range rule gives a value v outside [lo, hi] (the nearest bound # 0)
RangeCredit(lo, hi, v) ==
    LET bound == IF RLt(v, lo) THEN lo ELSE hi
        distance == IF RLt(v, lo) THEN RSub(lo, v) ELSE RSub(v, hi)
    IN RMax(RInt(0), RSub(RInt(1), RMul(RDiv(distance, bound), Rat(1, 2))))

\* C7: against a range [min, max], a numeric actual inside the range scores exactly
\* 1.0; one outside scores max(0, 1 - distance/boundary * 0.5), which is below 1.0; an
\* actual that is no number scores 0.0.
C7_RangeCredit ==
    (m_pc # "idle" /\ IsRange(expected) /\ TypeOf(expected[2][1]) = "num"
                   /\ TypeOf(expected[2][2]) = "num" /\ actual # PyNone) =>
        LET lo == expected[2][1][2]
            hi == expected[2][2][2]
        IN IF TypeOf(actual) = "num"
           THEN LET v == actual[2]
                    bound == IF RLt(v, lo) THEN lo ELSE hi
                IN IF RLe(lo, v) /\ RLe(v, hi)
                   THEN m_result = Returned(RInt(1))
                   ELSE /\ m_pc = "returned"
                        /\ RLt(m_result[2], RInt(1))
                        /\ bound # RInt(0) => m_result[2] = RangeCredit(lo, hi, v)
           ELSE ~FloatOk(actual) => m_result = Returned(RInt(0))

\* The coercion of a reported value to a boolean, as the claim words it
CoerceToBool(act) ==
    IF TypeOf(act) = "bool" THEN act[2]
    ELSE IF TypeOf(act) = "str" THEN StrLower(act[2]) \in TruthyTokens
         ELSE FALSE

\* C8 as stated: against a boolean, every reported value is coerced (a boolean as
\* itself, "true"/"yes"/"1" in any case to true, anything else to false) and scores
\* 1.0 exactly when the coerced value equals expected.
C8_AnythingElseIsFalse ==
    (m_pc # "idle" /\ TypeOf(expected) = "bool" /\ actual # PyNone) =>
        m_result = Returned(IF CoerceToBool(actual) = expected[2] THEN RInt(1) ELSE RInt(0))

\* C8 amended: a boolean or a string is coerced (a boolean as itself, "true"/"yes"/"1"
\* in any case to true, any other string to false) and scores 1.0 exactly when the
\* coerced value equals expected; a value that is neither scores 0.0 against true
\* and against false.
C8_BooleanMatch ==
    (m_pc # "idle" /\ TypeOf(expected) = "bool" /\ actual # PyNone) =>
        IF TypeOf(actual) \in {"bool", "str"}
        THEN m_result = Returned(IF CoerceToBool(actual) = expected[2] THEN RInt(1) ELSE RInt(0))
        ELSE m_result = Returned(RInt(0))

\* C8 witness: a truthy token in upper case matched a boolean true
C8_Witness ==
    /\ m_pc = "returned"
    /\ expected = PyBool(TRUE)
    /\ TypeOf(actual) = "str"
    /\ actual[2] \notin TruthyTokens
    /\ StrLower(actual[2]) \in TruthyTokens
    /\ m_result = Returned(RInt(1))

-----------------------------------------------------------------------------
(* Engine B: the claims *)

\* diagnose() has returned its sorted list
DiagnoseReturned == b_pc \in {"filter", "done"}

\* The profiles whose only symptom entry has a negative importance
NegativeOnlyProfiles ==
    {k \in DOMAIN disease_profiles :
        LET syms == Get(disease_profiles[k][2], "symptoms", <<>>)
        IN /\ Len(syms) = 1
           /\ HasKey(syms[1][2], "importance")
           /\ RLt(NumVal(Get(syms[1][2], "importance", PyNone)), RInt(0))}

OnlySymptomOf(k) == Get(disease_profiles[k][2], "symptoms", <<>>)[1][1]

PrevalenceOf(k) ==
    NumVal(Get(disease_profiles[k][2], "prevalence", PyNum(DefaultPrevalence)))

EntriesOf(k) == {j \in DOMAIN all_diagnoses : all_diagnoses[j].disease = disease_profiles[k][1]}

\* C9: a profile whose only symptom has negative importance is returned with confidence
\* min(100, 100 * (1 + prevalence * 0.2)) and one negative-match entry when the report
\* omits the symptom, and is not returned at all when the report includes it.
C9_NegativeImportance ==
    DiagnoseReturned =>
        \A k \in NegativeOnlyProfiles :
            IF HasKey(patient_symptoms, OnlySymptomOf(k))
            THEN EntriesOf(k) = {}
            ELSE /\ Cardinality(EntriesOf(k)) = 1
                 /\ \A j \in EntriesOf(k) :
                       /\ all_diagnoses[j].confidence =
                              RMin(RInt(100),
                                   RMul(RInt(100),
                                        RAdd(RInt(1), RMul(PrevalenceOf(k), Rat(1, 5)))))
                       /\ Len(all_diagnoses[j].negative_matches) = 1
                       /\ all_diagnoses[j].negative_matches[1].symptom = OnlySymptomOf(k)
                       /\ all_diagnoses[j].matched_symptoms = <<>>
                       /\ all_diagnoses[j].partially_matched = <<>>

\* C9 witness: such a profile was returned for a non-empty report that omits its symptom
C9_Witness ==
    /\ b_pc = "done"
    /\ patient_symptoms # <<>>
    /\ \E k \in NegativeOnlyProfiles :
          /\ ~HasKey(patient_symptoms, OnlySymptomOf(k))
          /\ EntriesOf(k) # {}

\* The entries of the sorted list that reach the threshold, in order
AtLeastMinConfidence ==
    SelectSeq(all_diagnoses, LAMBDA d : RLe(min_confidence, d.confidence))

\* C10: get_differential_diagnosis returns at most top_n entries, each of confidence
\* >= min_confidence: exactly the first top_n, in order, of the entries of the sorted
\* list whose confidence is >= min_confidence.
C10_TopDifferential ==
    b_pc = "done" =>
        /\ Len(returned) <= b_top_n
        /\ \A k \in DOMAIN returned : RLe(min_confidence, returned[k].confidence)
        /\ Len(returned) = IF Len(AtLeastMinConfidence) < b_top_n
                           THEN Len(AtLeastMinConfidence) ELSE b_top_n
        /\ \A k \in DOMAIN returned : returned[k] = AtLeastMinConfidence[k]

\* C10 witness: of two diagnoses the one whose confidence equals the threshold was
\* returned and the one below it was not
C10_Witness ==
    /\ b_pc = "done"
    /\ Len(all_diagnoses) = 2
    /\ b_top_n = 2
    /\ all_diagnoses[1].confidence = min_confidence
    /\ RLt(all_diagnoses[2].confidence, min_confidence)
    /\ returned = <<all_diagnoses[1]>>

\* The position in the profile collection of the profile a diagnosis is about
ProfileIndex(d) == CHOOSE k \in DOMAIN disease_profiles : disease_profiles[k][1] = d.disease

\* A list of diagnoses in non-increasing confidence, ties in profile order
ByConfidenceThenProfileOrder(ds) ==
    \A i, j \in DOMAIN ds :
        i < j => /\ RLe(ds[j].confidence, ds[i].confidence)
                 /\ ds[i].confidence = ds[j].confidence
                        => ProfileIndex(ds[i]) < ProfileIndex(ds[j])

\* C12: the list Engine B returns is ordered by non-increasing confidence, and
\* diagnoses of equal confidence keep the order of their profiles in the collection.
C12_SortedByConfidenceStable ==
    /\ DiagnoseReturned => ByConfidenceThenProfileOrder(all_diagnoses)
    /\ b_pc = "done" => ByConfidenceThenProfileOrder(returned)

\* C12 witness: two diagnoses of equal confidence were returned
C12_Witness ==
    /\ b_pc = "done"
    /\ Len(returned) = 2
    /\ returned[1].confidence = returned[2].confidence
    /\ ProfileIndex(returned[1]) = 1

\* The symptom-expectation map of the k-th profile
ProfileSymptoms(k) == Get(disease_profiles[k][2], "symptoms", <<>>)

\* What the symptom loop tallies for the k-th profile against the patient's report
TallyOf(k) == ScoreSymptoms(ProfileSymptoms(k), patient_symptoms, Len(ProfileSymptoms(k)))

\* Scoring the k-th profile produced a matched, partially matched or negative-match entry
HasEvidence(k) ==
    LET tally == TallyOf(k)
    IN \/ tally.matched_symptoms # <<>>
       \/ tally.partially_matched # <<>>
       \/ tally.negative_matches # <<>>

\* C13: a profile is in the result iff its symptom map is non-empty and scoring it
\* produced at least one matched, partially matched or negative-match entry; its
\* confidence and prevalence play no part in the decision.
C13_IncludedIffEvidence ==
    DiagnoseReturned =>
        \A k \in DOMAIN disease_profiles :
            /\ EntriesOf(k) # {} <=> (ProfileSymptoms(k) # <<>> /\ HasEvidence(k))
            /\ Cardinality(EntriesOf(k)) <= 1

\* C13 witness: a diagnosis of confidence 0 survived while a profile with a prevalence
\* of its own and a non-empty symptom map, but no evidence, was left out
C13_Witness ==
    /\ b_pc = "done"
    /\ \E j \in DOMAIN all_diagnoses : all_diagnoses[j].confidence = RInt(0)
    /\ \E k \in DOMAIN disease_profiles :
          /\ ProfileSymptoms(k) # <<>>
          /\ HasKey(disease_profiles[k][2], "prevalence")
          /\ EntriesOf(k) = {}

\* baseConfidence of the k-th profile: totalScore / maxPossible * 100, or 0
BaseConfidenceOf(k) ==
    LET tally == TallyOf(k)
    IN IF RLt(RInt(0), tally.max_possible_score)
       THEN RMul(RDiv(tally.total_score, tally.max_possible_score), RInt(100))
       ELSE RInt(0)

\* min(100, baseConfidence * (1 + prevalence * 0.2)) of the k-th profile
BoostedConfidenceOf(k) ==
    RMin(RInt(100), RMul(BaseConfidenceOf(k), RAdd(RInt(1), RMul(PrevalenceOf(k), Rat(1, 5)))))

InPercentRange(x) == RLe(RInt(0), x) /\ RLe(x, RInt(100))

\* C14 as stated: every returned confidence is in [0, 100] and equals
\* min(100, baseConfidence * (1 + prevalence * 0.2)).
C14_ConfidenceIsBoostedBase ==
    DiagnoseReturned =>
        \A k \in DOMAIN disease_profiles : \A j \in EntriesOf(k) :
            /\ InPercentRange(all_diagnoses[j].confidence)
            /\ all_diagnoses[j].confidence = BoostedConfidenceOf(k)

\* C14 as amended: every returned confidence is in [0, 100] and equals
\* min(100, baseConfidence * (1 + prevalence * 0.2)) rounded to one decimal place.
C14_ConfidenceIsRoundedBoostedBase ==
    DiagnoseReturned =>
        \A k \in DOMAIN disease_profiles : \A j \in EntriesOf(k) :
            /\ InPercentRange(all_diagnoses[j].confidence)
            /\ all_diagnoses[j].confidence = Round(BoostedConfidenceOf(k), 1)

\* C14 witness: one returned confidence was capped at 100 and another was changed by
\* the rounding
C14_Witness ==
    /\ b_pc = "done"
    /\ \E k \in DOMAIN disease_profiles :
          /\ EntriesOf(k) # {}
          /\ RLt(RInt(100), RMul(BaseConfidenceOf(k),
                                 RAdd(RInt(1), RMul(PrevalenceOf(k), Rat(1, 5)))))
    /\ \E k \in DOMAIN disease_profiles :
          /\ EntriesOf(k) # {}
          /\ Round(BoostedConfidenceOf(k), 1) # BoostedConfidenceOf(k)

\* The positions of the symptom entries of the k-th profile that have no importance
EntriesWithoutImportance(k) ==
    {s \in DOMAIN ProfileSymptoms(k) : ~HasKey(ProfileSymptoms(k)[s][2], "importance")}

\* A symptom entry with importance 0.5 written out where it has none
WithImportanceHalf(symptom_config) ==
    IF HasKey(symptom_config, "importance") THEN symptom_config
    ELSE symptom_config \o << <<"importance", PyNum(Rat(1, 2))>> >>

\* The k-th profile with importance 0.5 written out in the entries that have none
ProfileWithImportanceHalf(k) ==
    [f \in DOMAIN disease_profiles[k][2] |->
        IF disease_profiles[k][2][f][1] = "symptoms"
        THEN <<"symptoms",
               [s \in DOMAIN ProfileSymptoms(k) |->
                   <<ProfileSymptoms(k)[s][1], WithImportanceHalf(ProfileSymptoms(k)[s][2])>>]>>
        ELSE disease_profiles[k][2][f]]

\* C15 as stated: a symptom entry without an importance is a caller-data error and is
\* never scored: no diagnosis is returned for a profile that has such an entry.
C15_MissingImportanceNotScored ==
    DiagnoseReturned =>
        \A k \in DOMAIN disease_profiles :
            EntriesWithoutImportance(k) # {} => EntriesOf(k) = {}

\* What one iteration of the profile loop yields for the k-th profile once importance
\* 0.5 is written out
OutcomeWithImportanceHalf(k) ==
    ScoreProfile(disease_profiles[k][1], ProfileWithImportanceHalf(k), patient_symptoms)

\* C15 as amended: a symptom entry without an importance is scored exactly as if its
\* importance were 0.5: every profile gets the diagnosis it gets with 0.5 written out.
C15_MissingImportanceScoredAsHalf ==
    DiagnoseReturned =>
        \A k \in DOMAIN disease_profiles :
            LET outcome == OutcomeWithImportanceHalf(k)
            IN IF outcome[1] = "append"
               THEN \E j \in EntriesOf(k) : all_diagnoses[j] = outcome[2]
               ELSE EntriesOf(k) = {}

\* C15 witness: a reported symptom whose entry has no importance was returned as a
\* match of importance 50 (percent)
C15_Witness ==
    /\ b_pc = "done"
    /\ \E k \in DOMAIN disease_profiles : \E s \in EntriesWithoutImportance(k) :
          \E j \in EntriesOf(k) : \E e \in DOMAIN all_diagnoses[j].matched_symptoms :
              /\ all_diagnoses[j].matched_symptoms[e].symptom = ProfileSymptoms(k)[s][1]
              /\ all_diagnoses[j].matched_symptoms[e].importance = 50

\* An entry of the patient's report that carries present = false
SaysNotPresent(entry) == Get(entry[2], "present", PyNone) = PyBool(FALSE)

\* The report without the entries that carry present = false
ReportedOnly(patient) == SelectSeq(patient, LAMBDA entry : ~SaysNotPresent(entry))

\* What one iteration of the profile loop yields for the k-th profile when the entries
\* carrying present = false are not in the report
OutcomeOfReportedOnly(k) ==
    ScoreProfile(disease_profiles[k][1], disease_profiles[k][2], ReportedOnly(patient_symptoms))

\* C16: an entry of the report that carries present = false is not a reported symptom:
\* it earns no positive-importance score and does not block a negative-importance
\* match, so every profile gets the diagnosis it gets when such entries are left out.
C16_PresentFalseIsNotReported ==
    DiagnoseReturned =>
        \A k \in DOMAIN disease_profiles :
            IF OutcomeOfReportedOnly(k)[1] = "append"
            THEN \E j \in EntriesOf(k) : all_diagnoses[j] = OutcomeOfReportedOnly(k)[2]
            ELSE EntriesOf(k) = {}

\* A list of a diagnosis names the symptom
Lists(entries, symptom_name) == \E e \in DOMAIN entries : entries[e].symptom = symptom_name

\* The number of lists of diagnosis d that name the symptom
ListsNaming(d, symptom_name) ==
    Cardinality({l \in {"matched", "partial", "missing", "negative"} :
        \/ l = "matched" /\ Lists(d.matched_symptoms, symptom_name)
        \/ l = "partial" /\ Lists(d.partially_matched, symptom_name)
        \/ l = "missing" /\ Lists(d.missing_symptoms, symptom_name)
        \/ l = "negative" /\ Lists(d.negative_matches, symptom_name)})

\* The match quality of a symptom entry against what the report says of the symptom
QualityOf(symptom_name, symptom_config, report) ==
    calculate_symptom_match_score(symptom_config, Get(report, symptom_name, <<>>))[2]

\* Diagnosis d classifies one symptom entry as the rules say, the reported symptoms
\* being those of report
ClassifiedAs(d, symptom_name, symptom_config, report) ==
    /\ ListsNaming(d, symptom_name) <= 1
    /\ IF RLt(ImportanceOf(symptom_config), RInt(0))
       THEN Lists(d.negative_matches, symptom_name) <=> ~HasKey(report, symptom_name)
       ELSE IF HasKey(report, symptom_name)
            THEN /\ Lists(d.matched_symptoms, symptom_name)
                        <=> RLe(Rat(4, 5), QualityOf(symptom_name, symptom_config, report))
                 /\ Lists(d.partially_matched, symptom_name)
                        <=> /\ RLt(RInt(0), QualityOf(symptom_name, symptom_config, report))
                            /\ RLt(QualityOf(symptom_name, symptom_config, report), Rat(4, 5))
            ELSE Lists(d.missing_symptoms, symptom_name)
                        <=> RLe(Rat(7, 10), ImportanceOf(symptom_config))

\* Every returned diagnosis classifies every symptom entry of its profile as the rules
\* say, the reported symptoms being those of report
ClassifiedAgainst(report) ==
    \A k \in DOMAIN disease_profiles : \A j \in EntriesOf(k) :
        \A s \in DOMAIN ProfileSymptoms(k) :
            ClassifiedAs(all_diagnoses[j], ProfileSymptoms(k)[s][1], ProfileSymptoms(k)[s][2],
                         report)

-----------------------------------------------------------------------------
(* Engine A: the high-correlation bonus *)

\* The row has exactly one symptom present and it is one of the queried symptoms
OnlySymptomIsQueried(row, indices) ==
    /\ TotalSymptomsInRow(row) = 1
    /\ \E k \in DOMAIN indices : indices[k] <= Len(row) /\ row[indices[k]] = 1

\* The statistics of a disease before a row is scored
StatsBefore(scores, disease) ==
    IF StatsPos(scores, disease) = 0 THEN NewStats(disease)
    ELSE scores[StatsPos(scores, disease)]

\* base_score of a row when the two bonuses are applied independently: x2.0 for an
\* exact match, x1.5 for a row whose only symptom is a queried one
BaseScoreWithBothBonuses(matched, row, indices) ==
    RMul(RMul(RMul(Rat(matched, Len(indices)), RInt(100)),
              IF matched = Len(indices) THEN Rat(2, 1) ELSE RInt(1)),
         IF OnlySymptomIsQueried(row, indices) THEN Rat(3, 2) ELSE RInt(1))

\* C17: scoring a matching row increments the single-symptom count and multiplies the
\* base by 1.5 exactly when the row has one symptom in total and it is a queried one,
\* for every query (also one naming a symptom twice), independently of the x2.0
\* exact-match bonus.
C17_HighCorrelationBonus ==
    [][(/\ a_pc = "rows"
        /\ row_i' = row_i + 1
        /\ MatchedSymptoms(symptom_indices, data_rows[row_i']) > 0)
       => /\ StatsBefore(disease_scores', diseases[row_i']).single_symptom_matches
                = StatsBefore(disease_scores, diseases[row_i']).single_symptom_matches
                  + (IF OnlySymptomIsQueried(data_rows[row_i'], symptom_indices) THEN 1 ELSE 0)
          /\ StatsBefore(disease_scores', diseases[row_i']).total_score
                = RAdd(StatsBefore(disease_scores, diseases[row_i']).total_score,
                       RMul(BaseScoreWithBothBonuses(
                                MatchedSymptoms(symptom_indices, data_rows[row_i']),
                                data_rows[row_i'], symptom_indices),
                            FrequencyWeight(DiseaseFrequency(diseases, diseases[row_i']))))]_vars

-----------------------------------------------------------------------------
(* Engine A's API: src/backend/app.py, /api/diagnose *)

DefaultTopN == 10
LowestTopN == 1
HighestTopN == 100

Absent == <<"absent">>

\* POST: "top_n = data.get('top_n', 10)" and the sanitizing test that follows; a JSON
\* true is an int to isinstance and is handed on as 1
PostTopN(raw) ==
    IF raw = Absent THEN DefaultTopN
    ELSE IF raw[1] = "int" /\ raw[2] >= LowestTopN /\ raw[2] <= HighestTopN THEN raw[2]
         ELSE IF raw = <<"bool", TRUE>> THEN 1
              ELSE DefaultTopN

\* int(text) accepts (after strip) an optional sign and decimal digits; every other text
\* drawn by this model is a ValueError
IsIntText(s) ==
    /\ StrStrip(s) # <<>>
    /\ (IF Head(StrStrip(s)) \in {"-", "+"} THEN Tail(StrStrip(s)) ELSE StrStrip(s)) # <<>>
    /\ \A k \in DOMAIN StrStrip(s) :
          IsDigit(StrStrip(s)[k]) \/ (k = 1 /\ StrStrip(s)[k] \in {"-", "+"})

IntOfText(s) ==
    IF Head(StrStrip(s)) = "-" THEN -DigitsVal(Tail(StrStrip(s)))
    ELSE IF Head(StrStrip(s)) = "+" THEN DigitsVal(Tail(StrStrip(s)))
         ELSE DigitsVal(StrStrip(s))

\* GET: "request.args.get('top_n', 10, type=int)": the default when the parameter is
\* missing or int() fails on it, int(text) otherwise
GetTopN(raw) ==
    IF raw = Absent THEN DefaultTopN
    ELSE IF IsIntText(raw[2]) THEN IntOfText(raw[2]) ELSE DefaultTopN

RECURSIVE SplitAt(_, _, _)
\* text.split(sep), given the part read so far
SplitAt(text, sep, part) ==
    IF text = <<>> THEN <<part>>
    ELSE IF Head(text) = sep THEN <<part>> \o SplitAt(Tail(text), sep, <<>>)
         ELSE SplitAt(Tail(text), sep, Append(part, Head(text)))

\* GET: "[s.strip() for s in symptoms_str.split(',')]"
GetSymptoms(symptoms_str) ==
    [k \in DOMAIN SplitAt(symptoms_str, ",", <<>>) |->
        StrStrip(SplitAt(symptoms_str, ",", <<>>)[k])]

\* POST: the request is refused with 400 (symptoms missing, empty or not a list)
PostRefused(raw_symptoms) == raw_symptoms[1] # "list" \/ raw_symptoms[2] = <<>>

\* GET: the request is refused with 400 (symptoms missing or empty)
GetRefused(raw_symptoms) == raw_symptoms = Absent \/ raw_symptoms[2] = <<>>

\* The symptoms a POST body carries: none, a str, an empty list, lists of names
PostSymptomValues ==
    { Absent, <<"str", <<"r", "a", "s", "h">> >>, <<"list", <<>> >> }
        \cup { <<"list", <<s>> >> : s \in SymptomNames }
        \cup { <<"list", << <<"C", "o", "u", "g", "h">>, <<"f", "e", "v", "e", "r", " ">> >> >> }

\* The top_n a POST body carries
PostTopNValues ==
    { Absent, <<"bool", TRUE>>, <<"str", <<"2">> >> }
        \cup { <<"int", n>> : n \in {-1, 0, 1, 2, 100, 101} }

\* The symptoms query parameter of a GET
GetSymptomValues ==
    { Absent, <<"str", <<>> >>,
      <<"str", <<"r", "a", "s", "h">> >>,
      <<"str", <<"z", "z", "z">> >>,
      <<"str", <<"C", "o", "u", "g", "h", ",", " ", "F", "e", "v", "e", "r">> >> }

\* The top_n query parameter of a GET
GetTopNValues ==
    { Absent } \cup { <<"str", s>> : s \in { <<"-", "1">>, <<"0">>, <<"1">>, <<" ", "2">>,
                                             <<"1", "0", "0">>, <<"1", "0", "1">>,
                                             <<"a", "b", "c">> } }

\* The server has loaded nothing but the dataset file; no request yet
InitR ==
    /\ a_pc = "idle"
    /\ \E n \in 0..MaxRows :
          /\ diseases \in [1..n -> DiseaseIds]
          /\ data_rows \in [1..n -> RowVectors]
    /\ symptoms = <<>>
    /\ top_n = 0
    /\ symptom_indices = <<>>
    /\ disease_scores = <<>>
    /\ row_i = 0
    /\ results = <<>>
    /\ IdleM
    /\ IdleB
    /\ IdleR
    /\ IdleP

\* diagnose_endpoint: POST /api/diagnose
PostDiagnose ==
    /\ r_pc = "idle"
    /\ \E s \in PostSymptomValues, n \in PostTopNValues :
          /\ r_request' = <<s, n>>
          /\ r_top_n' = IF PostRefused(s) THEN <<"none">> ELSE <<"int", PostTopN(n)>>
          /\ r_status' = IF PostRefused(s) THEN 400 ELSE 200
          /\ r_response' = IF PostRefused(s) THEN <<>>
                           ELSE diagnose(s[2], PostTopN(n), diseases, data_rows)
    /\ r_method' = "POST"
    /\ r_pc' = "responded"
    /\ UNCHANGED <<varsA, varsM, varsB, varsP>>

\* diagnose_get: GET /api/diagnose
GetDiagnose ==
    /\ r_pc = "idle"
    /\ \E s \in GetSymptomValues, n \in GetTopNValues :
          /\ r_request' = <<s, n>>
          /\ r_top_n' = IF GetRefused(s) THEN <<"none">> ELSE <<"int", GetTopN(n)>>
          /\ r_status' = IF GetRefused(s) THEN 400 ELSE 200
          /\ r_response' = IF GetRefused(s) THEN <<>>
                           ELSE diagnose(GetSymptoms(s[2]), GetTopN(n), diseases, data_rows)
    /\ r_method' = "GET"
    /\ r_pc' = "responded"
    /\ UNCHANGED <<varsA, varsM, varsB, varsP>>

NextR == PostDiagnose \/ GetDiagnose

SpecR == InitR /\ [][NextR]_vars

\* C18: every top_n the API hands to Engine A's diagnose() lies in [1, 100], on the
\* POST and on the GET path, and no response holds more than 100 results.
C18_TopNClamped ==
    (r_pc = "responded" /\ r_top_n # <<"none">>)
        => /\ r_top_n[2] >= 1
           /\ r_top_n[2] <= 100
           /\ Len(r_response) <= 100

-----------------------------------------------------------------------------
(* Both engines as functions of their arguments and the reference data *)

RECURSIVE DiagnoseProfiles(_, _, _)
\* Engine B's results after the profile loop has visited profiles[1..n]
DiagnoseProfiles(profiles, patient, n) ==
    IF n = 0 THEN <<>>
    ELSE ResultsAfter(DiagnoseProfiles(profiles, patient, n - 1),
                      ScoreProfile(profiles[n][1], profiles[n][2], patient))

get_differential_diagnosis(patient, n, threshold, profiles) ==
    Take(FilterByConfidence(SortDiagnoses(DiagnoseProfiles(profiles, patient, Len(profiles))),
                            threshold), n)

-----------------------------------------------------------------------------
(* Parallel calls: reference data and arguments the model draws from *)

CallIds == 1..MaxParallel

\* The dataset: <<diseases, data_rows>>
ReferenceDataset == << <<"Flu", "Cold">>, << <<1, 1, 0>>, <<0, 1, 0>> >> >>

\* One profile collection: the absence of Cough supports the first disease, a Fever of
\* intensity 5 to 10 both
ReferenceProfiles ==
    << << <<"disease", 1>>,
          << <<"symptoms",
               << <<"Cough", << <<"importance", PyNum(Rat(-3, 5))>> >> >>,
                  <<"Fever", << <<"importance", PyNum(Rat(9, 10))>>,
                                <<"expectations",
                                  << <<"intensity", RangeOf(RInt(5), RInt(10))>> >> >> >> >> >> >> >> >>,
       << <<"disease", 2>>,
          << <<"prevalence", PyNum(Rat(3, 10))>>,
             <<"symptoms",
               << <<"Fever", << <<"importance", PyNum(Rat(9, 10))>>,
                                <<"expectations",
                                  << <<"intensity", RangeOf(RInt(5), RInt(10))>> >> >> >> >> >> >> >> >> >>

\* Arguments of Engine A calls: <<symptoms, top_n>>
ArgumentsA ==
    { << << <<"C", "o", "u", "g", "h">> >>, 1 >>,
      << << <<"f", "e", "v", "e", "r", " ">>, <<"C", "o", "u", "g", "h">> >>, 2 >> }

\* Arguments of Engine B calls: <<patient_symptoms, top_n, min_confidence>>
ArgumentsB ==
    { << << <<"Fever", << <<"present", PyBool(TRUE)>>, <<"intensity", PyInt(7)>> >> >> >>,
         2, RInt(10) >>,
      << << <<"Cough", << <<"present", PyBool(TRUE)>> >> >>,
            <<"Fever", << <<"intensity", PyInt(20)>> >> >> >>,
         1, RInt(10) >> }

-----------------------------------------------------------------------------
(* Parallel calls: each call has its own locals; the reference data is shared *)

\* A worker that serves no call
IdleCall ==
    [engine |-> "none", pc |-> "idle", input |-> <<>>, indices |-> <<>>, acc |-> <<>>,
     i |-> 0, out |-> <<>>, overlapped |-> FALSE]

\* Another call is running
OthersActive(c) == \E k \in CallIds \ {c} : calls[k].pc # "idle"

\* Variant: the accumulator lives on from one call to the next
NewAccumulatorKept(previous) == previous

\* "disease_scores = defaultdict(...)" (Engine A), "results = []" (Engine B): every
\* call builds its accumulator anew, whatever an earlier call has left behind
NewAccumulator(previous) == <<>>

\* What the call this worker served before, if of the same engine, has left behind
LeftBehind(c, engine) == IF calls[c].engine = engine THEN calls[c].acc ELSE <<>>

\* Variant: the accumulator is one object shared by all calls of an engine
StoreAccumulatorShared(cs, c, acc) ==
    [k \in DOMAIN cs |-> IF cs[k].engine = cs[c].engine THEN [cs[k] EXCEPT !.acc = acc]
                         ELSE cs[k]]

\* A call writes its own accumulator only
StoreAccumulator(cs, c, acc) == [cs EXCEPT ![c].acc = acc]

\* The locals of a call that has just been made
NewCall(c, engine, pc, input) ==
    [engine |-> engine, pc |-> pc, input |-> input, indices |-> <<>>,
     acc |-> NewAccumulator(LeftBehind(c, engine)), i |-> 0, out |-> <<>>,
     overlapped |-> OthersActive(c)]

\* The reference data is loaded; no call yet
InitP ==
    /\ a_pc = "idle"
    /\ diseases = ReferenceDataset[1]
    /\ data_rows = ReferenceDataset[2]
    /\ symptoms = <<>>
    /\ top_n = 0
    /\ symptom_indices = <<>>
    /\ disease_scores = <<>>
    /\ row_i = 0
    /\ results = <<>>
    /\ IdleM
    /\ b_pc = "idle"
    /\ disease_profiles = ReferenceProfiles
    /\ patient_symptoms = <<>>
    /\ b_top_n = 0
    /\ min_confidence = RInt(0)
    /\ profile_i = 0
    /\ b_results = <<>>
    /\ all_diagnoses = <<>>
    /\ returned = <<>>
    /\ IdleR
    /\ calls = [c \in CallIds |-> IdleCall]

\* Engine A: diagnose(symptoms, top_n) is called
StartA(c) ==
    /\ calls[c].pc = "idle"
    /\ \E input \in ArgumentsA : calls' = [calls EXCEPT ![c] = NewCall(c, "A", "resolve", input)]
    /\ UNCHANGED <<varsA, varsM, varsB, varsR>>

\* Engine A: find_symptom_indices and the early return
ResolveA(c) ==
    /\ calls[c].engine = "A"
    /\ calls[c].pc = "resolve"
    /\ calls' = [calls EXCEPT
                   ![c].indices = find_symptom_indices(calls[c].input[1], symptom_columns),
                   ![c].pc = IF find_symptom_indices(calls[c].input[1], symptom_columns) = <<>>
                             THEN "done" ELSE "rows",
                   ![c].overlapped = @ \/ OthersActive(c)]
    /\ UNCHANGED <<varsA, varsM, varsB, varsR>>

\* Engine A: one iteration of the row loop
ScoreRowA(c) ==
    /\ calls[c].engine = "A"
    /\ calls[c].pc = "rows"
    /\ calls[c].i < Len(data_rows)
    /\ calls' = StoreAccumulator(
                   [calls EXCEPT ![c].i = @ + 1, ![c].overlapped = @ \/ OthersActive(c)],
                   c,
                   ScoreRow(calls[c].acc, diseases[calls[c].i + 1], data_rows[calls[c].i + 1],
                            calls[c].indices,
                            DiseaseFrequency(diseases, diseases[calls[c].i + 1])))
    /\ UNCHANGED <<varsA, varsM, varsB, varsR>>

\* Engine A: build the records, sort, truncate
FinishA(c) ==
    /\ calls[c].engine = "A"
    /\ calls[c].pc = "rows"
    /\ calls[c].i = Len(data_rows)
    /\ calls' = [calls EXCEPT
                   ![c].out = Take(SortResults(BuildResults(calls[c].acc, calls[c].indices,
                                                            diseases)),
                                   calls[c].input[2]),
                   ![c].pc = "done",
                   ![c].overlapped = @ \/ OthersActive(c)]
    /\ UNCHANGED <<varsA, varsM, varsB, varsR>>

\* Engine B: get_differential_diagnosis(patient_symptoms, top_n, min_confidence) is called
StartB(c) ==
    /\ calls[c].pc = "idle"
    /\ \E input \in ArgumentsB : calls' = [calls EXCEPT ![c] = NewCall(c, "B", "profiles", input)]
    /\ UNCHANGED <<varsA, varsM, varsB, varsR>>

\* Engine B: one iteration of the profile loop
ScoreProfileB(c) ==
    /\ calls[c].engine = "B"
    /\ calls[c].pc = "profiles"
    /\ calls[c].i < Len(disease_profiles)
    /\ calls' = StoreAccumulator(
                   [calls EXCEPT
                      ![c].i = @ + 1,
                      ![c].pc = PcAfter(ScoreProfile(disease_profiles[calls[c].i + 1][1],
                                                     disease_profiles[calls[c].i + 1][2],
                                                     calls[c].input[1])),
                      ![c].overlapped = @ \/ OthersActive(c)],
                   c,
                   ResultsAfter(calls[c].acc,
                                ScoreProfile(disease_profiles[calls[c].i + 1][1],
                                             disease_profiles[calls[c].i + 1][2],
                                             calls[c].input[1])))
    /\ UNCHANGED <<varsA, varsM, varsB, varsR>>

\* Engine B: diagnose() sorts its results and returns them
SortB(c) ==
    /\ calls[c].engine = "B"
    /\ calls[c].pc = "profiles"
    /\ calls[c].i = Len(disease_profiles)
    /\ calls' = StoreAccumulator(
                   [calls EXCEPT ![c].pc = "filter", ![c].overlapped = @ \/ OthersActive(c)],
                   c, SortDiagnoses(calls[c].acc))
    /\ UNCHANGED <<varsA, varsM, varsB, varsR>>

\* Engine B: filter by min_confidence, keep the first top_n
FilterB(c) ==
    /\ calls[c].engine = "B"
    /\ calls[c].pc = "filter"
    /\ calls' = [calls EXCEPT
                   ![c].out = Take(FilterByConfidence(calls[c].acc, calls[c].input[3]),
                                   calls[c].input[2]),
                   ![c].pc = "done",
                   ![c].overlapped = @ \/ OthersActive(c)]
    /\ UNCHANGED <<varsA, varsM, varsB, varsR>>

\* Either engine: the call returns; its locals are dropped
ReturnCall(c) ==
    /\ calls[c].pc = "done"
    /\ calls' = [calls EXCEPT ![c] = [IdleCall EXCEPT !.engine = calls[c].engine,
                                                      !.acc = calls[c].acc]]
    /\ UNCHANGED <<varsA, varsM, varsB, varsR>>

NextP ==
    \E c \in CallIds :
        \/ StartA(c)
        \/ ResolveA(c)
        \/ ScoreRowA(c)
        \/ FinishA(c)
        \/ StartB(c)
        \/ ScoreProfileB(c)
        \/ SortB(c)
        \/ FilterB(c)
        \/ ReturnCall(c)

SpecP == InitP /\ [][NextP]_vars

-----------------------------------------------------------------------------
(* Parallel calls: the claims *)

\* What a call of the engine returns when it runs alone over the reference data
ResultAlone(engine, input) ==
    IF engine = "A" THEN diagnose(input[1], input[2], diseases, data_rows)
    ELSE get_differential_diagnosis(input[1], input[2], input[3], disease_profiles)

\* The calls that have computed their result and are about to return it
Computed == {c \in CallIds : calls[c].pc = "done"}

\* C11: two calls of the same engine with identical arguments over the unchanged
\* reference data return identical output: the same records, the same field values,
\* the same order.
C11_Deterministic ==
    \A x, y \in Computed :
        (calls[x].engine = calls[y].engine /\ calls[x].input = calls[y].input)
            => calls[x].out = calls[y].out

\* C11 witness: two calls with identical arguments have both computed a non-empty result
C11_Witness ==
    \E x, y \in Computed :
        /\ x # y
        /\ calls[x].engine = calls[y].engine
        /\ calls[x].input = calls[y].input
        /\ calls[x].out # <<>>

\* C20: a call that ran interleaved with other calls returns exactly what it returns
\* when it runs alone, and no step changes the reference data.
C20_NoInterference ==
    /\ [](\A c \in Computed : calls[c].out = ResultAlone(calls[c].engine, calls[c].input))
    /\ [][UNCHANGED <<diseases, data_rows, disease_profiles>>]_vars

\* C20 witness: a call whose steps were interleaved with another call's has computed a
\* non-empty result while a call of the other engine is in the middle of its loop
C20_Witness ==
    \E c \in Computed : \E k \in CallIds :
        /\ calls[c].overlapped
        /\ calls[c].out # <<>>
        /\ calls[k].engine # calls[c].engine
        /\ calls[k].pc \in {"rows", "profiles"}
        /\ calls[k].i >= 1

=============================================================================
